---- MODULE Spec2Model ----
(***************************************************************************)
(* Model of the agent loop, the tool dispatcher and the conversation state *)
(* of Colprit/Tab2:                                                        *)
(*   - Conversation / ConversationManager  (src/unnamed/part_000)          *)
(*   - ToolCallHandler  (src/backend/src/services/toolCallHandler.ts)      *)
(*   - ChatService      (src/backend/src/services/conversationManager.ts)  *)
(***************************************************************************)
EXTENDS Integers, Sequences, FiniteSets, TLC

(***************************************************************************)
(* Program constants.                                                      *)
(***************************************************************************)
MAX_CONTEXT_TOKENS == 6500
RESERVE_TOKENS == 4096
maxAllowedTokens == MAX_CONTEXT_TOKENS - RESERVE_TOKENS
promptTokens == 500
summaryResponseReserve == 4096
summaryHeadroom == 1000
maxIterations == 10
baseOverhead == 50
toolUseBase == 100
toolResultBase == 50

(***************************************************************************)
(* Bounds of the model.                                                    *)
(***************************************************************************)
MaxLog == 5          \* messages added through addMessage in SpecCompact
MaxIds == 1          \* tool invocations the engine issues in one run
MaxRequests == 2     \* handleMessage / confirmToolCalls calls in one run
MaxEngineCalls == 1  \* reasoning-engine completions in one run
MaxNamed == 2        \* length of the toolCallIds array of a confirmation

(***************************************************************************)
(* String lengths (characters) of the payloads the model distinguishes.    *)
(***************************************************************************)
SmallLen == 8        \* a short text: 2 estimated tokens
BigLen == 4608       \* a long text: 1152 estimated tokens
HugeLen == 9216      \* a long read result: 2304 estimated tokens
InputLen == 17       \* JSON.stringify({range:"A1:B2"}).length
WhatNextLen == 10    \* 'What next?'.length
DenyTextLen == 45    \* 'I do not want to proceed with this tool call.'.length
ContinueLen == 301   \* the max_tokens continuation instruction
PlaceholderBase == 77 \* placeholder text without the message count
NoteBase == 52       \* '[Note: ...]\n\n' prefix without the two counts

(***************************************************************************)
(* Messages and content blocks.  A content block is a record               *)
(*   [type, id, name, input, text, len]                                    *)
(* where id is the tool_use id (tool_use) or tool_use_id (tool_result),    *)
(* text tags the payload and len is the payload's length in characters.    *)
(* A message is [role, kind, blocks, text, len]: kind "array" carries      *)
(* blocks, kind "string" carries a string content of length len.           *)
(***************************************************************************)
TextBlock(tag, n) ==
  [type |-> "text", id |-> 0, name |-> "", input |-> "", text |-> tag, len |-> n]

ToolUseBlock(i, nm, inp) ==
  [type |-> "tool_use", id |-> i, name |-> nm, input |-> inp, text |-> "", len |-> InputLen]

ToolResultBlock(i, tag, n) ==
  [type |-> "tool_result", id |-> i, name |-> "", input |-> "", text |-> tag, len |-> n]

ArrayMessage(r, bs) ==
  [role |-> r, kind |-> "array", blocks |-> bs, text |-> "", len |-> 0]

StringMessage(r, tag, n) ==
  [role |-> r, kind |-> "string", blocks |-> <<>>, text |-> tag, len |-> n]

\* messages[i + 1] past the end of the array
Undefined == [role |-> "undefined", kind |-> "undefined", blocks |-> <<>>, text |-> "", len |-> 0]

CeilDiv4(n) == (n + 3) \div 4

Digits(n) == IF n < 10 THEN 1 ELSE IF n < 100 THEN 2 ELSE 3

RECURSIVE SumBlocks(_)
SumBlocks(bs) ==
  IF bs = <<>> THEN 0
  ELSE LET item == Head(bs) IN
       (CASE item.type = "text" -> CeilDiv4(item.len)
          [] item.type = "tool_use" -> toolUseBase + CeilDiv4(item.len)
          [] item.type = "tool_result" -> toolResultBase + CeilDiv4(item.len)
          [] OTHER -> 0)
       + SumBlocks(Tail(bs))

estimateTokens(message) ==
  baseOverhead +
    (CASE message.kind = "string" -> CeilDiv4(message.len)
       [] message.kind = "array" -> SumBlocks(message.blocks)
       [] OTHER -> 0)

RECURSIVE estimateTotal(_)
estimateTotal(msgs) ==
  IF msgs = <<>> THEN 0 ELSE estimateTokens(Head(msgs)) + estimateTotal(Tail(msgs))

\* "THROW" stands for the TypeError of reading .content of undefined or
\* .type of the missing first block of an empty array.
getMessageType(message) ==
  IF message.kind = "undefined" THEN "THROW"
  ELSE IF message.kind = "array"
       THEN IF message.blocks = <<>> THEN "THROW" ELSE message.blocks[1].type
       ELSE "unknown"

getMessageId(message) ==
  CASE getMessageType(message) = "tool_use" -> message.blocks[1].id
    [] getMessageType(message) = "tool_result" -> message.blocks[1].id
    [] OTHER -> 0

\* The scan of validateToolUsePairs from index i; [threw, out].
RECURSIVE validateFrom(_, _)
validateFrom(messages, i) ==
  IF i > Len(messages) THEN [threw |-> FALSE, out |-> <<>>]
  ELSE
    LET msg == messages[i]
        msgType == getMessageType(msg)
    IN
    IF msgType = "THROW" THEN [threw |-> TRUE, out |-> <<>>]
    ELSE IF msgType = "tool_use" THEN
      LET nextMsg == IF i + 1 <= Len(messages) THEN messages[i + 1] ELSE Undefined
          nextMsgType == getMessageType(nextMsg)
      IN
      IF nextMsgType = "THROW" THEN [threw |-> TRUE, out |-> <<>>]
      ELSE IF nextMsgType = "tool_result" /\ getMessageId(msg) = getMessageId(nextMsg)
      THEN LET rest == validateFrom(messages, i + 2) IN
           [threw |-> rest.threw, out |-> <<msg, nextMsg>> \o rest.out]
      ELSE validateFrom(messages, i + 1)
    ELSE IF msgType = "text" THEN
      LET rest == validateFrom(messages, i + 1) IN
      [threw |-> rest.threw, out |-> <<msg>> \o rest.out]
    ELSE validateFrom(messages, i + 1)

validateToolUsePairs(messages) == validateFrom(messages, 1)

\* the backward walk keeping the message it stops at
RECURSIVE walkBackKeepingOverflow(_, _, _)
walkBackKeepingOverflow(messages, i, estimatedTokens) ==
  IF i = 0 THEN 1
  ELSE IF estimatedTokens + estimateTokens(messages[i]) < maxAllowedTokens
       THEN walkBackKeepingOverflow(messages, i - 1,
                                    estimatedTokens + estimateTokens(messages[i]))
       ELSE i

\* Backward walk of getMessagesForAPI: the index of the first kept message.
RECURSIVE walkBack(_, _, _)
walkBack(messages, i, estimatedTokens) ==
  IF i = 0 THEN 1
  ELSE IF estimatedTokens + estimateTokens(messages[i]) < maxAllowedTokens
       THEN walkBack(messages, i - 1, estimatedTokens + estimateTokens(messages[i]))
       ELSE i + 1

latestMessages(messages) ==
  SubSeq(messages, walkBack(messages, Len(messages), 0), Len(messages))

\* Greedy prefix of generateSummaryMessage: number of messages that fit.
RECURSIVE fitPrefix(_, _, _)
fitPrefix(msgs, i, tokens) ==
  IF i > Len(msgs) THEN Len(msgs)
  ELSE IF tokens + estimateTokens(msgs[i]) <= MAX_CONTEXT_TOKENS - summaryHeadroom
       THEN fitPrefix(msgs, i + 1, tokens + estimateTokens(msgs[i]))
       ELSE i - 1

placeholderMessage(n) ==
  StringMessage("user", "placeholder", PlaceholderBase + Digits(n))

\* outcome: [kind |-> "ok", len |-> n] | [kind |-> "empty"] | [kind |-> "fail"]
\* result: [threw, called, request, message]; message = Undefined stands for null.
generateSummaryMessage(messagesToSummarize, outcome) ==
  LET fitted == SubSeq(messagesToSummarize, 1,
                       fitPrefix(messagesToSummarize, 1, promptTokens + summaryResponseReserve))
      pruned == validateToolUsePairs(fitted)
      messagesForSummary == pruned.out
  IN
  IF pruned.threw
  THEN [threw |-> TRUE, called |-> FALSE, request |-> <<>>, message |-> Undefined]
  ELSE
    [threw |-> FALSE, called |-> TRUE, request |-> messagesForSummary,
     message |->
       CASE outcome.kind = "fail" -> placeholderMessage(Len(messagesToSummarize))
         [] outcome.kind = "empty" -> Undefined
         [] OTHER ->
            IF Len(messagesForSummary) < Len(messagesToSummarize)
            THEN StringMessage("user", "summary",
                   NoteBase + Digits(Len(messagesForSummary))
                     + Digits(Len(messagesToSummarize)) + outcome.len)
            ELSE StringMessage("user", "summary", outcome.len)]

\* the threshold test with < in place of <=
needsCompactionAtBudget(totalTokens) == ~(totalTokens < maxAllowedTokens)

needsCompaction(totalTokens) == ~(totalTokens <= maxAllowedTokens)

\* the summary put behind the kept messages
pushSummary(summaryMessage, validatedMessages) ==
  validatedMessages \o <<summaryMessage>>

\* validatedMessages.unshift(summaryMessage)
unshiftSummary(summaryMessage, validatedMessages) ==
  <<summaryMessage>> \o validatedMessages

\* result: [threw, compacted, called, request, excluded, out]
getMessagesForAPI(messages, outcome) ==
  IF ~needsCompaction(estimateTotal(messages))
  THEN [threw |-> FALSE, compacted |-> FALSE, called |-> FALSE,
        request |-> <<>>, excluded |-> <<>>, out |-> messages]
  ELSE
    LET validated == validateToolUsePairs(latestMessages(messages))
        excludedStartIndex == Len(messages) - Len(validated.out)
        excludedMessages == IF excludedStartIndex > 0
                            THEN SubSeq(messages, 1, excludedStartIndex)
                            ELSE <<>>
        summary == generateSummaryMessage(excludedMessages, outcome)
    IN
    IF validated.threw
    THEN [threw |-> TRUE, compacted |-> TRUE, called |-> FALSE,
          request |-> <<>>, excluded |-> <<>>, out |-> <<>>]
    ELSE IF Len(excludedMessages) = 0
    THEN [threw |-> FALSE, compacted |-> TRUE, called |-> FALSE,
          request |-> <<>>, excluded |-> <<>>, out |-> validated.out]
    ELSE IF summary.threw
    THEN [threw |-> TRUE, compacted |-> TRUE, called |-> FALSE,
          request |-> <<>>, excluded |-> excludedMessages, out |-> <<>>]
    ELSE [threw |-> FALSE, compacted |-> TRUE, called |-> TRUE,
          request |-> summary.request, excluded |-> excludedMessages,
          out |-> IF summary.message = Undefined
                  THEN validated.out
                  ELSE unshiftSummary(summary.message, validated.out)]

(***************************************************************************)
(* Pending tool calls: a Map in insertion order, kept as a sequence of     *)
(* tool calls [id, name, input] with pairwise different ids.               *)
(***************************************************************************)
ToolCall(i, nm, inp) == [id |-> i, name |-> nm, input |-> inp]

pendingIds(pend) == {pend[k].id : k \in 1..Len(pend)}

\* addPendingToolCall that stores every call under the name write_range
addPendingToolCallRenamed(pend, toolCall) ==
  Append(SelectSeq(pend, LAMBDA c : c.id # toolCall.id),
         [toolCall EXCEPT !.name = "write_range"])

addPendingToolCall(pend, toolCall) ==
  IF toolCall.id \in pendingIds(pend)
  THEN [k \in 1..Len(pend) |-> IF pend[k].id = toolCall.id THEN toolCall ELSE pend[k]]
  ELSE Append(pend, toolCall)

\* getPendingToolCalls that returns every pending call once an id is named
getPendingToolCallsUnfiltered(pend, toolCallIds) ==
  IF toolCallIds = <<>> THEN <<>> ELSE pend

RECURSIVE getPendingToolCalls(_, _)
getPendingToolCalls(pend, toolCallIds) ==
  IF toolCallIds = <<>> THEN <<>>
  ELSE LET found == SelectSeq(pend, LAMBDA c : c.id = Head(toolCallIds)) IN
       found \o getPendingToolCalls(pend, Tail(toolCallIds))

\* clearPendingToolCalls whose loop skips the first named id
clearPendingToolCallsAfterFirst(pend, toolCallIds) ==
  SelectSeq(pend, LAMBDA c : \A k \in 2..Len(toolCallIds) : toolCallIds[k] # c.id)

\* clearPendingToolCalls that deletes nothing
clearPendingToolCallsSkipped(pend, toolCallIds) == pend

clearPendingToolCalls(pend, toolCallIds) ==
  SelectSeq(pend, LAMBDA c : \A k \in 1..Len(toolCallIds) : toolCallIds[k] # c.id)

hasPendingToolCalls(pend) == Len(pend) > 0

getAllPendingToolCalls(pend) == pend

\* The entries of a confirmation_required result.
pendingSummary(pend) ==
  [k \in 1..Len(pend) |->
     [id |-> pend[k].id, operation |-> pend[k].name, input |-> pend[k].input]]

(***************************************************************************)
(* ToolCallHandler.                                                        *)
(***************************************************************************)
ToolNames ==
  {"read_range", "write_range", "append_row", "clear_range", "create_chart",
   "get_spreadsheet_metadata"}

\* writeOperations with one write tool forgotten
writeOperationsWithoutChart == {"write_range", "append_row", "clear_range"}

writeOperations == {"write_range", "append_row", "clear_range", "create_chart"}

ErrorLen == 35       \* JSON.stringify({error: ...}).length
SuccessLen == 79     \* JSON.stringify({success: true, ...}).length
DeniedLen == 74      \* JSON.stringify({denied: true, ...}).length
PendingLen == 74     \* JSON.stringify({pending: true, ...}).length

ToolResult(i, tag, n, err, conf) ==
  [toolUseId |-> i, content |-> tag, len |-> n, isError |-> err,
   requiresConfirmation |-> conf]

NoToolResult == ToolResult(0, "", 0, FALSE, FALSE)

\* failed: the Resource Client raised an error in this call
ResourceCall(op, sheet, toolCall, from, failed) ==
  [op |-> op, spreadsheetId |-> sheet, id |-> toolCall.id, name |-> toolCall.name,
   input |-> toolCall.input, origin |-> from, failed |-> failed]

resourceOp(name) ==
  CASE name = "read_range" -> "readRange"
    [] name = "write_range" -> "writeRange"
    [] name = "append_row" -> "appendRow"
    [] name = "clear_range" -> "clearRange"
    [] name = "create_chart" -> "createChart"
    [] OTHER -> "none"

\* executeToolCall whose catch block reports a success
executeToolCallHidingErrors(toolCall, spreadsheetId, outcome, from) ==
  IF resourceOp(toolCall.name) = "none"
  THEN [result |-> ToolResult(toolCall.id, "error", ErrorLen, TRUE, FALSE),
        calls |-> <<>>]
  ELSE
    [result |->
       IF toolCall.name = "read_range"
       THEN ToolResult(toolCall.id, "data", outcome.len, FALSE, FALSE)
       ELSE ToolResult(toolCall.id, "success", SuccessLen, FALSE, FALSE),
     calls |-> <<ResourceCall(resourceOp(toolCall.name), spreadsheetId, toolCall, from,
                              ~outcome.ok)>>]

\* outcome: [ok, len] is what the Resource Client does when it is called.
\* result: [result, calls]
executeToolCall(toolCall, spreadsheetId, outcome, from) ==
  IF resourceOp(toolCall.name) = "none"
  THEN [result |-> ToolResult(toolCall.id, "error", ErrorLen, TRUE, FALSE),
        calls |-> <<>>]
  ELSE
    [result |->
       IF ~outcome.ok THEN ToolResult(toolCall.id, "error", ErrorLen, TRUE, FALSE)
       ELSE IF toolCall.name = "read_range"
       THEN ToolResult(toolCall.id, "data", outcome.len, FALSE, FALSE)
       ELSE ToolResult(toolCall.id, "success", SuccessLen, FALSE, FALSE),
     calls |-> <<ResourceCall(resourceOp(toolCall.name), spreadsheetId, toolCall, from,
                              ~outcome.ok)>>]

\* handleToolCall answering a write without registering it as pending
handleToolCallUnregistered(toolCall, spreadsheetId, pend, outcome) ==
  IF toolCall.name \in writeOperations
  THEN [result |-> ToolResult(toolCall.id, "pending", PendingLen, FALSE, TRUE),
        calls |-> <<>>,
        pending |-> pend]
  ELSE LET r == executeToolCall(toolCall, spreadsheetId, outcome, "loop") IN
       [result |-> r.result, calls |-> r.calls, pending |-> pend]

\* handleToolCall registering a write without asking for its confirmation
handleToolCallUnflagged(toolCall, spreadsheetId, pend, outcome) ==
  IF toolCall.name \in writeOperations
  THEN [result |-> ToolResult(toolCall.id, "pending", PendingLen, FALSE, FALSE),
        calls |-> <<>>,
        pending |-> addPendingToolCall(pend, toolCall)]
  ELSE LET r == executeToolCall(toolCall, spreadsheetId, outcome, "loop") IN
       [result |-> r.result, calls |-> r.calls, pending |-> pend]

\* result: [result, calls, pending]
handleToolCall(toolCall, spreadsheetId, pend, outcome) ==
  IF toolCall.name \in writeOperations
  THEN [result |-> ToolResult(toolCall.id, "pending", PendingLen, FALSE, TRUE),
        calls |-> <<>>,
        pending |-> addPendingToolCall(pend, toolCall)]
  ELSE LET r == executeToolCall(toolCall, spreadsheetId, outcome, "loop") IN
       [result |-> r.result, calls |-> r.calls, pending |-> pend]

(***************************************************************************)
(* State.                                                                  *)
(***************************************************************************)
VARIABLES
  conversations,   \* ConversationManager.conversations: id -> Conversation
  pc,              \* per request slot: where the async call is suspended
  args,            \* per slot: the arguments of the last call that passed its checks
  currentResponse, \* per slot: continueConversation's currentResponse
  iterationCount,  \* per slot: continueConversation's iterationCount
  queue,           \* per slot: tool_use items / pending calls still to handle
  toolResult,      \* per slot: the last ToolResult the handler returned
  result,          \* per slot: what the last call returned or threw
  api,             \* the last getMessagesForAPI call: its input and result
  resourceCalls,   \* history: calls received by the Resource Client
  approved,        \* history: ids named by a confirmation (confirmed = true) while pending
  engineCalls,     \* history: completions requested by continueConversation
  nextId,          \* the next tool_use id the engine issues
  nreq,            \* number of calls that passed their checks so far
  overlap,         \* whether callers overlap requests (FALSE: serialized)
  lookup           \* the last ConversationManager.getConversation call: id and value

vars ==
  <<conversations, pc, args, currentResponse, iterationCount, queue, toolResult,
    result, api, resourceCalls, approved, engineCalls, nextId, nreq,
    overlap, lookup>>

Slots == {1, 2}
ConvIds == {"default", "other"}
Sheets == {"s1"}
Inputs == {"A1:B2"}
StopReasons == {"tool_use", "end_turn", "max_tokens"}
MaxBlocks == 1       \* content blocks in one engine response

NoConversation ==
  [exists |-> FALSE, spreadsheetId |-> "", messages |-> <<>>, pendingToolCalls |-> <<>>]

NoArgs ==
  [kind |-> "none", given |-> "", conversationId |-> "", spreadsheetId |-> "",
   toolCallIds |-> <<>>, confirmed |-> FALSE]

NoResponse == [content |-> <<>>, stop_reason |-> "none"]

NoResult == [type |-> "none", error |-> "", content |-> <<>>, pendingToolCalls |-> <<>>,
             hasMorePendingCalls |-> FALSE]

NoApi == [input |-> <<>>, threw |-> FALSE, compacted |-> FALSE, called |-> FALSE,
          request |-> <<>>, excluded |-> <<>>, out |-> <<>>, done |-> FALSE,
          outcome |-> "none"]

NoLookup == [id |-> "", done |-> FALSE, conversation |-> NoConversation]

ErrorResult(reason) == [NoResult EXCEPT !.type = "error", !.error = reason]

SummaryOutcomes ==
  {[kind |-> "ok", len |-> SmallLen], [kind |-> "ok", len |-> BigLen],
   [kind |-> "empty", len |-> 0], [kind |-> "fail", len |-> 0]}

\* What the Resource Client may do when it is called for a tool: succeed
\* (a read returns a short or a long rendering) or raise an error.
ResourceOutcomes(name) ==
  IF name = "read_range"
  THEN {[ok |-> TRUE, len |-> SmallLen], [ok |-> TRUE, len |-> HugeLen],
        [ok |-> FALSE, len |-> 0]}
  ELSE IF name \in {"write_range", "append_row", "clear_range", "create_chart"}
  THEN {[ok |-> TRUE, len |-> 0], [ok |-> FALSE, len |-> 0]}
  ELSE {[ok |-> FALSE, len |-> 0]}

UserLens == {SmallLen}
MessageConvIds == {""}   \* conversationId undefined: the id 'default'

\* the request built from the log without its last message
callApiWithoutLast(messages, outcome) ==
  LET stale == SubSeq(messages, 1, Len(messages) - 1)
      r == getMessagesForAPI(stale, outcome)
  IN
  [input |-> stale, threw |-> r.threw, compacted |-> r.compacted, called |-> r.called,
   request |-> r.request, excluded |-> r.excluded, out |-> r.out, done |-> TRUE,
   outcome |-> IF r.called THEN outcome.kind ELSE "none"]

callApi(messages, outcome) ==
  LET r == getMessagesForAPI(messages, outcome) IN
  [input |-> messages, threw |-> r.threw, compacted |-> r.compacted, called |-> r.called,
   request |-> r.request, excluded |-> r.excluded, out |-> r.out, done |-> TRUE,
   outcome |-> IF r.called THEN outcome.kind ELSE "none"]

\* addMessage that puts the message in front of the stored ones
addMessageAtFront(conv, message) == [conv EXCEPT !.messages = <<message>> \o @]

\* Conversation.addMessage: this.messages.push(message)
addMessage(conv, message) == [conv EXCEPT !.messages = Append(@, message)]

\* Conversation.getAllMessages: a copy of this.messages
getAllMessages(conv) == [k \in 1..Len(conv.messages) |-> conv.messages[k]]

RECURSIVE addMessages(_, _)
addMessages(conv, msgs) ==
  IF msgs = <<>> THEN conv ELSE addMessages(addMessage(conv, Head(msgs)), Tail(msgs))

\* getOrCreateConversation that starts a new Map for a new id
getOrCreateConversationInNewMap(convs, id, spreadsheetId) ==
  IF convs[id].exists THEN convs
  ELSE [c \in DOMAIN convs |->
          IF c = id
          THEN [exists |-> TRUE, spreadsheetId |-> spreadsheetId,
                messages |-> <<>>, pendingToolCalls |-> <<>>]
          ELSE NoConversation]

\* getOrCreateConversation without the has(id) test: every call stores a
\* new Conversation
getOrCreateConversationAlwaysNew(convs, id, spreadsheetId) ==
  [convs EXCEPT ![id] = [exists |-> TRUE, spreadsheetId |-> spreadsheetId,
                         messages |-> <<>>, pendingToolCalls |-> <<>>]]

\* ConversationManager.getOrCreateConversation
getOrCreateConversation(convs, id, spreadsheetId) ==
  IF convs[id].exists THEN convs
  ELSE [convs EXCEPT ![id] = [exists |-> TRUE, spreadsheetId |-> spreadsheetId,
                              messages |-> <<>>, pendingToolCalls |-> <<>>]]

\* ConversationManager.getConversation: undefined is the absent Conversation
getConversation(convs, id) ==
  IF convs[id].exists THEN convs[id] ELSE NoConversation

\* ConversationManager.clearConversation
clearConversation(convs, id) == [convs EXCEPT ![id] = NoConversation]

\* No call in flight, nothing recorded yet.
InitIdle ==
  /\ pc = [s \in Slots |-> "idle"]
  /\ args = [s \in Slots |-> NoArgs]
  /\ currentResponse = [s \in Slots |-> NoResponse]
  /\ iterationCount = [s \in Slots |-> 0]
  /\ queue = [s \in Slots |-> <<>>]
  /\ toolResult = [s \in Slots |-> NoToolResult]
  /\ result = [s \in Slots |-> NoResult]
  /\ api = NoApi
  /\ resourceCalls = <<>>
  /\ approved = {}
  /\ engineCalls = 0
  /\ nextId = 1
  /\ nreq = 0
  /\ overlap = FALSE
  /\ lookup = NoLookup

Init ==
  /\ conversations = [c \in ConvIds |-> NoConversation]
  /\ InitIdle

\* A caller may start a request in slot s.
canStart(s) ==
  /\ pc[s] = "idle"
  /\ nreq < MaxRequests
  /\ overlap \/ (s = 1 /\ \A t \in Slots : pc[t] = "idle")

conversationOf(s) == conversations[args[s].conversationId]

\* continueConversation returns or throws: its local variables are gone
returned(s) ==
  /\ currentResponse' = [currentResponse EXCEPT ![s] = NoResponse]
  /\ iterationCount' = [iterationCount EXCEPT ![s] = 0]
  /\ queue' = [queue EXCEPT ![s] = <<>>]
  /\ toolResult' = [toolResult EXCEPT ![s] = NoToolResult]

(***************************************************************************)
(* ChatService.handleMessage up to the call of continueConversation.       *)
(***************************************************************************)
HandleMessageWith(s, conversationIds, sheets) ==
  /\ canStart(s)
  /\ \E n \in UserLens, conversationId \in conversationIds, spreadsheetId \in sheets \cup {""} :
       LET id == IF conversationId = "" THEN "default" ELSE conversationId
           created == getOrCreateConversation(conversations, id, spreadsheetId)
       IN
       IF spreadsheetId = ""
       THEN /\ result' = [result EXCEPT ![s] = ErrorResult("Spreadsheet ID is required")]
            /\ UNCHANGED <<conversations, pc, args, nreq>>
       ELSE /\ conversations' =
                 [created EXCEPT ![id] =
                    addMessage(@, ArrayMessage("user", <<TextBlock("user", n)>>))]
            /\ args' = [args EXCEPT ![s] =
                          [kind |-> "message", given |-> conversationId,
                           conversationId |-> id,
                           spreadsheetId |-> spreadsheetId, toolCallIds |-> <<>>,
                           confirmed |-> FALSE]]
            /\ pc' = [pc EXCEPT ![s] = "getMessages"]
            /\ result' = [result EXCEPT ![s] = NoResult]
            /\ nreq' = nreq + 1
  /\ currentResponse' = [currentResponse EXCEPT ![s] = NoResponse]
  /\ iterationCount' = [iterationCount EXCEPT ![s] = 0]
  /\ queue' = [queue EXCEPT ![s] = <<>>]
  /\ toolResult' = [toolResult EXCEPT ![s] = NoToolResult]
  /\ UNCHANGED <<api, resourceCalls, approved, engineCalls, nextId, overlap, lookup>>

\* the callers work on one spreadsheet
HandleMessageFrom(s, conversationIds) == HandleMessageWith(s, conversationIds, Sheets)

\* the callers of Spec name no conversation
HandleMessage(s) == HandleMessageFrom(s, MessageConvIds)

(***************************************************************************)
(* continueConversation: await conversation.getMessagesForAPI(anthropic),  *)
(* before the initial completion and before each completion of the loop.   *)
(* A rejection leaves continueConversation and is rethrown by              *)
(* handleMessage as 'Chat error: ...'.                                     *)
(***************************************************************************)
GetMessages(s) ==
  /\ pc[s] = "getMessages"
  /\ \E outcome \in SummaryOutcomes :
       LET r == callApi(conversationOf(s).messages, outcome) IN
       /\ r.called \/ outcome.kind = "fail"
       /\ api' = r
       /\ IF r.threw
          THEN /\ pc' = [pc EXCEPT ![s] = "idle"]
               /\ result' = [result EXCEPT ![s] = ErrorResult("Chat error")]
               /\ returned(s)
          ELSE /\ pc' = [pc EXCEPT ![s] = "callEngine"]
               /\ UNCHANGED <<result, currentResponse, iterationCount, queue, toolResult>>
  /\ UNCHANGED <<conversations, args, resourceCalls, approved, engineCalls, nextId, nreq,
                 overlap, lookup>>

(***************************************************************************)
(* The Reasoning Engine: any content of at most MaxBlocks blocks, with     *)
(* fresh tool_use ids, and any stop reason.                                *)
(***************************************************************************)
\* The tools the engine names: both read-class names and, of the four
\* write-class names that handleToolCall and executeToolCall treat alike,
\* the first and the last.
EngineTools == {"read_range", "get_spreadsheet_metadata", "write_range", "create_chart"}

Kinds == {"text"} \cup EngineTools

Shapes == UNION {[1..n -> Kinds] : n \in 0..MaxBlocks}

toolCount(shape) == Cardinality({k \in 1..Len(shape) : shape[k] # "text"})

RECURSIVE mkContent(_, _)
mkContent(shape, id) ==
  IF shape = <<>> THEN <<>>
  ELSE IF Head(shape) = "text"
       THEN <<TextBlock("assistant", SmallLen)>> \o mkContent(Tail(shape), id)
       ELSE <<ToolUseBlock(id, Head(shape), CHOOSE inp \in Inputs : TRUE)>>
              \o mkContent(Tail(shape), id + 1)

textItems(content) == SelectSeq(content, LAMBDA item : item.type = "text")

toolUseItems(content) == SelectSeq(content, LAMBDA item : item.type = "tool_use")

toolCallOf(item) == ToolCall(item.id, item.name, item.input)

\* await this.anthropic.messages.create(...) resolves
EngineReturn(s) ==
  /\ pc[s] = "callEngine"
  /\ engineCalls < MaxEngineCalls
  /\ \E shape \in Shapes, stop \in StopReasons :
       /\ nextId + toolCount(shape) <= MaxIds + 1
       /\ currentResponse' = [currentResponse EXCEPT ![s] =
                                [content |-> mkContent(shape, nextId), stop_reason |-> stop]]
       /\ nextId' = nextId + toolCount(shape)
  /\ engineCalls' = engineCalls + 1
  /\ pc' = [pc EXCEPT ![s] = "loop"]
  /\ UNCHANGED <<conversations, args, iterationCount, queue, toolResult, result, api,
                 resourceCalls, approved, nreq, overlap, lookup>>

\* a rejected completion answered with an empty message in place of the
\* rethrown error
EngineFailAnswered(s) ==
  /\ pc[s] = "callEngine"
  /\ pc' = [pc EXCEPT ![s] = "idle"]
  /\ result' = [result EXCEPT ![s] = [NoResult EXCEPT !.type = "message"]]
  /\ returned(s)
  /\ UNCHANGED <<conversations, args, api, resourceCalls, approved, engineCalls, nextId,
                 nreq, overlap, lookup>>

\* await this.anthropic.messages.create(...) rejects
EngineFail(s) ==
  /\ pc[s] = "callEngine"
  /\ pc' = [pc EXCEPT ![s] = "idle"]
  /\ result' = [result EXCEPT ![s] =
                  ErrorResult("Chat error: Failed to communicate with AI")]
  /\ returned(s)
  /\ UNCHANGED <<conversations, args, api, resourceCalls, approved, engineCalls, nextId,
                 nreq, overlap, lookup>>

\* the text items of a response left out of the log
textMessagesDropped(items) == <<>>

RECURSIVE textMessages(_)
textMessages(items) ==
  IF items = <<>> THEN <<>>
  ELSE <<ArrayMessage("assistant", <<Head(items)>>)>> \o textMessages(Tail(items))

\* the head of an iteration without iterationCount++
LoopTopUncounted(s) ==
  /\ pc[s] = "loop"
  /\ conversations' =
       [conversations EXCEPT ![args[s].conversationId] =
          addMessages(@, textMessages(textItems(currentResponse[s].content)))]
  /\ queue' = [queue EXCEPT ![s] = toolUseItems(currentResponse[s].content)]
  /\ pc' = [pc EXCEPT ![s] = "tools"]
  /\ UNCHANGED <<iterationCount, args, currentResponse, toolResult, result, api,
                 resourceCalls, approved, engineCalls, nextId, nreq, overlap, lookup>>

\* while (iterationCount < maxIterations): the head of an iteration
LoopTop(s) ==
  /\ pc[s] = "loop"
  /\ IF iterationCount[s] < maxIterations
     THEN /\ iterationCount' = [iterationCount EXCEPT ![s] = @ + 1]
          /\ conversations' =
               [conversations EXCEPT ![args[s].conversationId] =
                  addMessages(@, textMessages(textItems(currentResponse[s].content)))]
          /\ queue' = [queue EXCEPT ![s] = toolUseItems(currentResponse[s].content)]
          /\ pc' = [pc EXCEPT ![s] = "tools"]
     ELSE /\ pc' = [pc EXCEPT ![s] = "finish"]
          /\ UNCHANGED <<iterationCount, conversations, queue>>
  /\ UNCHANGED <<args, currentResponse, toolResult, result, api, resourceCalls, approved,
                 engineCalls, nextId, nreq, overlap, lookup>>

\* one turn of: for (const toolUseItem of toolUseItems)
DispatchTool(s) ==
  /\ pc[s] = "tools"
  /\ queue[s] # <<>>
  /\ \E outcome \in ResourceOutcomes(Head(queue[s]).name) :
       LET toolUseItem == Head(queue[s])
           conv == conversationOf(s)
           r == handleToolCall(toolCallOf(toolUseItem), args[s].spreadsheetId,
                               conv.pendingToolCalls, outcome)
           registered == [conv EXCEPT !.pendingToolCalls = r.pending]
       IN
       /\ toolResult' = [toolResult EXCEPT ![s] = r.result]
       /\ resourceCalls' = resourceCalls \o r.calls
       /\ conversations' =
            [conversations EXCEPT ![args[s].conversationId] =
               IF ~r.result.requiresConfirmation
               THEN addMessages(registered,
                      <<ArrayMessage("assistant", <<toolUseItem>>),
                        ArrayMessage("user",
                          <<ToolResultBlock(toolUseItem.id, r.result.content, r.result.len),
                            TextBlock("What next?", WhatNextLen)>>)>>)
               ELSE registered]
  /\ queue' = [queue EXCEPT ![s] = Tail(@)]
  /\ UNCHANGED <<pc, args, currentResponse, iterationCount, result, api, approved,
                 engineCalls, nextId, nreq, overlap, lookup>>

\* the exits of the loop body after the tool calls of a response
AfterTools(s) ==
  /\ pc[s] = "tools"
  /\ queue[s] = <<>>
  /\ LET conv == conversationOf(s)
         stop == currentResponse[s].stop_reason
     IN
     IF stop = "tool_use" /\ hasPendingToolCalls(conv.pendingToolCalls)
     THEN /\ pc' = [pc EXCEPT ![s] = "finish"]
          /\ UNCHANGED conversations
     ELSE IF stop = "end_turn"
     THEN /\ pc' = [pc EXCEPT ![s] = "finish"]
          /\ UNCHANGED conversations
     ELSE /\ pc' = [pc EXCEPT ![s] = "getMessages"]
          /\ conversations' =
               [conversations EXCEPT ![args[s].conversationId] =
                  IF stop = "max_tokens"
                  THEN addMessage(@, ArrayMessage("user",
                                       <<TextBlock("continue", ContinueLen)>>))
                  ELSE @]
  /\ UNCHANGED <<args, currentResponse, iterationCount, queue, toolResult, result, api,
                 resourceCalls, approved, engineCalls, nextId, nreq, overlap, lookup>>

\* the code after the loop
Finish(s) ==
  /\ pc[s] = "finish"
  /\ LET conv == conversationOf(s)
         response == currentResponse[s]
     IN
     IF hasPendingToolCalls(conv.pendingToolCalls)
     THEN /\ result' = [result EXCEPT ![s] =
                          [NoResult EXCEPT
                             !.type = "confirmation_required",
                             !.content = response.content,
                             !.pendingToolCalls =
                                pendingSummary(getAllPendingToolCalls(conv.pendingToolCalls))]]
          /\ UNCHANGED conversations
     ELSE /\ result' = [result EXCEPT ![s] =
                          [NoResult EXCEPT !.type = "message", !.content = response.content]]
          /\ conversations' =
               [conversations EXCEPT ![args[s].conversationId] =
                  IF response.stop_reason # "end_turn" /\ Len(response.content) > 0
                  THEN addMessage(@, ArrayMessage("assistant", response.content))
                  ELSE @]
  /\ pc' = [pc EXCEPT ![s] = "idle"]
  /\ returned(s)
  /\ UNCHANGED <<args, api, resourceCalls, approved, engineCalls, nextId, nreq, overlap, lookup>>

(***************************************************************************)
(* ChatService.confirmToolCalls.                                           *)
(***************************************************************************)
\* toolCallIds: any list, repetitions included, of ids the engine has issued
IdLists(issued) == UNION {[1..n -> 1..issued] : n \in 0..MaxNamed}

toolUseMessage(pendingCall) ==
  ArrayMessage("assistant",
    <<ToolUseBlock(pendingCall.id, pendingCall.name, pendingCall.input)>>)

deniedMessage(pendingCall) ==
  ArrayMessage("user",
    <<ToolResultBlock(pendingCall.id, "denied", DeniedLen),
      TextBlock("I do not want to proceed with this tool call.", DenyTextLen)>>)

\* the tool_result of an executed call reporting a success whatever the outcome
executedMessageAlwaysSuccess(pendingCall, r) ==
  ArrayMessage("user", <<ToolResultBlock(pendingCall.id, "success", SuccessLen)>>)

executedMessage(pendingCall, r) ==
  ArrayMessage("user", <<ToolResultBlock(pendingCall.id, r.content, r.len)>>)

RECURSIVE deniedPairs(_)
deniedPairs(pendingCalls) ==
  IF pendingCalls = <<>> THEN <<>>
  ELSE <<toolUseMessage(Head(pendingCalls)), deniedMessage(Head(pendingCalls))>>
         \o deniedPairs(Tail(pendingCalls))

\* confirmToolCalls with the branches of its last conditional exchanged
confirmResultEmptyWhenPending(conv) ==
  [NoResult EXCEPT
     !.type = "success",
     !.hasMorePendingCalls = hasPendingToolCalls(conv.pendingToolCalls),
     !.pendingToolCalls =
        IF hasPendingToolCalls(conv.pendingToolCalls)
        THEN <<>>
        ELSE pendingSummary(getAllPendingToolCalls(conv.pendingToolCalls))]

\* the value confirmToolCalls returns
confirmResult(conv) ==
  [NoResult EXCEPT
     !.type = "success",
     !.hasMorePendingCalls = hasPendingToolCalls(conv.pendingToolCalls),
     !.pendingToolCalls =
        IF hasPendingToolCalls(conv.pendingToolCalls)
        THEN pendingSummary(getAllPendingToolCalls(conv.pendingToolCalls))
        ELSE <<>>]

\* confirmToolCalls from its entry to its first suspension or its return
ConfirmToolCallsFrom(s, idLists) ==
  /\ canStart(s)
  /\ \E conversationId \in ConvIds, toolCallIds \in idLists,
        confirmed \in BOOLEAN :
       LET conv == conversations[conversationId]
           pendingCalls == getPendingToolCalls(conv.pendingToolCalls, toolCallIds)
           cleared == [conv EXCEPT !.pendingToolCalls =
                                     clearPendingToolCalls(@, toolCallIds)]
           accepted == [kind |-> "confirm", given |-> conversationId,
                        conversationId |-> conversationId,
                        spreadsheetId |-> "", toolCallIds |-> toolCallIds,
                        confirmed |-> confirmed]
       IN
       \* every id list that names no pending call is answered alike: one id at
       \* most stands for them
       /\ (~conv.exists \/ Len(pendingCalls) = 0) => Len(toolCallIds) <= 1
       /\ IF ~conv.exists
          THEN /\ result' = [result EXCEPT ![s] = ErrorResult("Conversation not found")]
               /\ UNCHANGED <<conversations, pc, args, queue, approved, nreq>>
          ELSE IF Len(pendingCalls) = 0
          THEN /\ result' = [result EXCEPT ![s] = ErrorResult("No pending tool calls found")]
               /\ UNCHANGED <<conversations, pc, args, queue, approved, nreq>>
          ELSE IF ~confirmed
          THEN /\ conversations' =
                    [conversations EXCEPT ![conversationId] =
                       addMessages(cleared, deniedPairs(pendingCalls))]
               /\ result' = [result EXCEPT ![s] = confirmResult(cleared)]
               /\ args' = [args EXCEPT ![s] = accepted]
               /\ nreq' = nreq + 1
               /\ UNCHANGED <<pc, queue, approved>>
          ELSE /\ conversations' =
                    [conversations EXCEPT ![conversationId] =
                       addMessage(cleared, toolUseMessage(Head(pendingCalls)))]
               /\ queue' = [queue EXCEPT ![s] = pendingCalls]
               /\ pc' = [pc EXCEPT ![s] = "execute"]
               /\ result' = [result EXCEPT ![s] = NoResult]
               /\ args' = [args EXCEPT ![s] = accepted]
               /\ nreq' = nreq + 1
               /\ approved' = approved \cup
                    {toolCallIds[k] : k \in {j \in 1..Len(toolCallIds) :
                        toolCallIds[j] \in pendingIds(conv.pendingToolCalls)}}
  /\ UNCHANGED <<currentResponse, iterationCount, toolResult, api, resourceCalls,
                 engineCalls, nextId, overlap, lookup>>

\* the callers name ids the engine has issued
ConfirmToolCalls(s) == ConfirmToolCallsFrom(s, IdLists(nextId - 1))

\* await this.toolCallHandler.executeToolCall(pendingCall, conversation.spreadsheetId)
\* resolves; the loop goes on to the next pending call or the call returns
ExecuteDone(s) ==
  /\ pc[s] = "execute"
  /\ \E outcome \in ResourceOutcomes(Head(queue[s]).name) :
       LET pendingCall == Head(queue[s])
           conv == conversationOf(s)
           r == executeToolCall(pendingCall, conv.spreadsheetId, outcome, "confirm")
           answered == addMessage(conv, executedMessage(pendingCall, r.result))
       IN
       /\ toolResult' = [toolResult EXCEPT ![s] =
                          IF Tail(queue[s]) # <<>> THEN r.result ELSE NoToolResult]
       /\ resourceCalls' = resourceCalls \o r.calls
       /\ IF Tail(queue[s]) # <<>>
          THEN /\ conversations' =
                    [conversations EXCEPT ![args[s].conversationId] =
                       addMessage(answered, toolUseMessage(Head(Tail(queue[s]))))]
               /\ UNCHANGED <<pc, result>>
          ELSE /\ conversations' =
                    [conversations EXCEPT ![args[s].conversationId] = answered]
               /\ pc' = [pc EXCEPT ![s] = "idle"]
               /\ result' = [result EXCEPT ![s] = confirmResult(answered)]
  /\ queue' = [queue EXCEPT ![s] = Tail(@)]
  /\ UNCHANGED <<args, currentResponse, iterationCount, api, approved, engineCalls,
                 nextId, nreq, overlap, lookup>>

Next ==
  \E s \in Slots :
    \/ HandleMessage(s)
    \/ GetMessages(s)
    \/ EngineReturn(s)
    \/ EngineFail(s)
    \/ LoopTop(s)
    \/ DispatchTool(s)
    \/ AfterTools(s)
    \/ Finish(s)
    \/ ConfirmToolCalls(s)
    \/ ExecuteDone(s)

Spec == Init /\ [][Next]_vars

TypeOK ==
  /\ nreq \in 0..MaxRequests
  /\ nextId \in 1..(MaxIds + 1)
  /\ \A s \in Slots : pc[s] \in {"idle", "getMessages", "callEngine", "loop", "tools",
                                 "finish", "execute"}

(***************************************************************************)
(* The Conversation class on its own: callers add messages through         *)
(* addMessage and ask for getMessagesForAPI, as the unit tests do.         *)
(***************************************************************************)
DirectMessages ==
  {ArrayMessage("user", <<TextBlock("user", SmallLen)>>),
   ArrayMessage("user", <<TextBlock("user", BigLen)>>),
   ArrayMessage("assistant", <<ToolUseBlock(1, "read_range", "A1:B2")>>),
   ArrayMessage("user", <<ToolResultBlock(1, "data", SmallLen),
                          TextBlock("What next?", WhatNextLen)>>),
   ArrayMessage("user", <<ToolResultBlock(2, "data", SmallLen)>>),
   ArrayMessage("assistant", <<TextBlock("assistant", SmallLen),
                               ToolUseBlock(2, "read_range", "A1:B2")>>)}

InitCompact ==
  /\ InitIdle
  /\ conversations =
       [c \in ConvIds |->
          IF c = "default"
          THEN [exists |-> TRUE, spreadsheetId |-> "s1", messages |-> <<>>,
                pendingToolCalls |-> <<>>]
          ELSE NoConversation]

\* Conversation.addMessage
AddMessage ==
  /\ Len(conversations["default"].messages) < MaxLog
  /\ \E message \in DirectMessages :
       conversations' = [conversations EXCEPT !["default"] = addMessage(@, message)]
  /\ api' = NoApi
  /\ UNCHANGED <<pc, args, currentResponse, iterationCount, queue, toolResult, result,
                 resourceCalls, approved, engineCalls, nextId, nreq, overlap, lookup>>

\* await conversation.getMessagesForAPI(anthropic)
GetMessagesForAPI ==
  /\ \E outcome \in SummaryOutcomes :
       LET r == callApi(conversations["default"].messages, outcome) IN
       /\ r.called \/ outcome.kind = "fail"
       /\ api' = r
  /\ UNCHANGED <<conversations, pc, args, currentResponse, iterationCount, queue,
                 toolResult, result, resourceCalls, approved, engineCalls, nextId, nreq,
                 overlap, lookup>>

NextCompact == AddMessage \/ GetMessagesForAPI

SpecCompact == InitCompact /\ [][NextCompact]_vars

(***************************************************************************)
(* One turn against a Reasoning Engine that answers every completion with  *)
(* one read_range invocation and stop_reason 'tool_use', and a Resource    *)
(* Client whose renderings are short: the only bound on the turn is the    *)
(* loop's own maxIterations.                                               *)
(***************************************************************************)
\* the caller sends one message
StartTurn(s) ==
  /\ nreq = 0
  /\ HandleMessage(s)

\* await this.anthropic.messages.create(...) resolves with a read invocation
EngineReturnsRead(s) ==
  /\ pc[s] = "callEngine"
  /\ currentResponse' = [currentResponse EXCEPT ![s] =
                           [content |-> mkContent(<<"read_range">>, nextId),
                            stop_reason |-> "tool_use"]]
  /\ nextId' = nextId + 1
  /\ engineCalls' = engineCalls + 1
  /\ pc' = [pc EXCEPT ![s] = "loop"]
  /\ UNCHANGED <<conversations, args, iterationCount, queue, toolResult, result, api,
                 resourceCalls, approved, nreq, overlap, lookup>>

\* the Resource Client answers a read with a short rendering or an error
DispatchShortRead(s) ==
  /\ DispatchTool(s)
  /\ toolResult'[s].len < HugeLen

NextLoop ==
  \E s \in Slots :
    \/ StartTurn(s)
    \/ GetMessages(s)
    \/ EngineReturnsRead(s)
    \/ LoopTop(s)
    \/ DispatchShortRead(s)
    \/ AfterTools(s)
    \/ Finish(s)

SpecLoop == Init /\ [][NextLoop]_vars

(***************************************************************************)
(* The same turn against an engine that asks for one read or one write in  *)
(* every response.                                                         *)
(***************************************************************************)
\* await this.anthropic.messages.create(...) resolves with one invocation
EngineReturnsInvocation(s) ==
  /\ pc[s] = "callEngine"
  /\ \E name \in {"read_range", "write_range"} :
       currentResponse' = [currentResponse EXCEPT ![s] =
                             [content |-> mkContent(<<name>>, nextId),
                              stop_reason |-> "tool_use"]]
  /\ nextId' = nextId + 1
  /\ engineCalls' = engineCalls + 1
  /\ pc' = [pc EXCEPT ![s] = "loop"]
  /\ UNCHANGED <<conversations, args, iterationCount, queue, toolResult, result, api,
                 resourceCalls, approved, nreq, overlap, lookup>>

NextLoopWrites ==
  \E s \in Slots :
    \/ StartTurn(s)
    \/ GetMessages(s)
    \/ EngineReturnsInvocation(s)
    \/ LoopTop(s)
    \/ DispatchShortRead(s)
    \/ AfterTools(s)
    \/ Finish(s)

SpecLoopWrites == Init /\ [][NextLoopWrites]_vars

(***************************************************************************)
(* One turn in which the Reasoning Engine asks for two writes in one       *)
(* response, followed by the caller's confirmations.                       *)
(***************************************************************************)
\* await this.anthropic.messages.create(...) resolves with two write invocations
EngineReturnsWrites(s) ==
  /\ pc[s] = "callEngine"
  /\ \E first, second \in EngineTools \cap writeOperations :
       currentResponse' = [currentResponse EXCEPT ![s] =
                             [content |-> mkContent(<<first, second>>, nextId),
                              stop_reason |-> "tool_use"]]
  /\ nextId' = nextId + toolCount(<<"write_range", "write_range">>)
  /\ engineCalls' = engineCalls + 1
  /\ pc' = [pc EXCEPT ![s] = "loop"]
  /\ UNCHANGED <<conversations, args, iterationCount, queue, toolResult, result, api,
                 resourceCalls, approved, nreq, overlap, lookup>>

NextConfirm ==
  \E s \in Slots :
    \/ StartTurn(s)
    \/ GetMessages(s)
    \/ EngineReturnsWrites(s)
    \/ LoopTop(s)
    \/ DispatchTool(s)
    \/ AfterTools(s)
    \/ Finish(s)
    \/ ConfirmToolCalls(s)
    \/ ExecuteDone(s)

SpecConfirm == Init /\ [][NextConfirm]_vars

(***************************************************************************)
(* One turn against an engine whose responses hold two blocks, texts and   *)
(* invocations in any order.                                               *)
(***************************************************************************)
\* await this.anthropic.messages.create(...) resolves with two blocks
EngineReturnsBlocks(s) ==
  /\ pc[s] = "callEngine"
  /\ engineCalls < MaxEngineCalls
  /\ \E first, second \in {"text", "read_range", "write_range"}, stop \in StopReasons :
       /\ currentResponse' = [currentResponse EXCEPT ![s] =
                                [content |-> mkContent(<<first, second>>, nextId),
                                 stop_reason |-> stop]]
       /\ nextId' = nextId + toolCount(<<first, second>>)
  /\ engineCalls' = engineCalls + 1
  /\ pc' = [pc EXCEPT ![s] = "loop"]
  /\ UNCHANGED <<conversations, args, iterationCount, queue, toolResult, result, api,
                 resourceCalls, approved, nreq, overlap, lookup>>

NextBlocks ==
  \E s \in Slots :
    \/ StartTurn(s)
    \/ GetMessages(s)
    \/ EngineReturnsBlocks(s)
    \/ EngineFail(s)
    \/ LoopTop(s)
    \/ DispatchTool(s)
    \/ AfterTools(s)
    \/ Finish(s)

SpecBlocks == Init /\ [][NextBlocks]_vars

(***************************************************************************)
(* Two conversations in one ConversationManager: callers name no           *)
(* conversation or the conversation 'other', every turn takes one          *)
(* completion, and the registry is also read and cleared directly.         *)
(***************************************************************************)
HandleMessageAny(s) == HandleMessageFrom(s, {"", "other"})

\* await this.anthropic.messages.create(...) resolves with a response that
\* ends the turn: a text, a read, or a write that waits for confirmation
EngineAnswersOnce(s) ==
  /\ pc[s] = "callEngine"
  /\ \E answer \in {<<"text", "end_turn">>, <<"read_range", "end_turn">>,
                     <<"write_range", "tool_use">>} :
       /\ currentResponse' = [currentResponse EXCEPT ![s] =
                                [content |-> mkContent(<<answer[1]>>, nextId),
                                 stop_reason |-> answer[2]]]
       /\ nextId' = nextId + toolCount(<<answer[1]>>)
  /\ engineCalls' = engineCalls + 1
  /\ pc' = [pc EXCEPT ![s] = "loop"]
  /\ UNCHANGED <<conversations, args, iterationCount, queue, toolResult, result, api,
                 resourceCalls, approved, nreq, overlap, lookup>>

\* manager.getConversation(id)
GetConversation ==
  /\ \E id \in ConvIds :
       lookup' = [id |-> id, done |-> TRUE, conversation |-> getConversation(conversations, id)]
  /\ UNCHANGED <<conversations, pc, args, currentResponse, iterationCount, queue,
                 toolResult, result, api, resourceCalls, approved, engineCalls, nextId,
                 nreq, overlap>>

\* manager.clearConversation(id), between two calls
ClearConversation ==
  /\ \A s \in Slots : pc[s] = "idle"
  /\ \E id \in ConvIds :
       /\ conversations[id].exists
       /\ conversations' = clearConversation(conversations, id)
  /\ UNCHANGED <<pc, args, currentResponse, iterationCount, queue, toolResult, result,
                 api, resourceCalls, approved, engineCalls, nextId, nreq, overlap, lookup>>

NextRegistry ==
  \/ GetConversation
  \/ ClearConversation
  \/ \E s \in Slots :
       \/ HandleMessageAny(s)
       \/ GetMessages(s)
       \/ EngineAnswersOnce(s)
       \/ LoopTop(s)
       \/ DispatchTool(s)
       \/ AfterTools(s)
       \/ Finish(s)
       \/ ConfirmToolCalls(s)
       \/ ExecuteDone(s)

SpecRegistry == Init /\ [][NextRegistry]_vars

(***************************************************************************)
(* One turn in which every awaited call returns or fails.  The first       *)
(* completion is any response the Reasoning Engine can give, answered by   *)
(* the Resource Client in any way; each later completion asks for one      *)
(* more read, which the Resource Client answers with a short rendering, or *)
(* ends the turn, or fails.                                                *)
(***************************************************************************)
\* await this.anthropic.messages.create(...) resolves
EngineAnswers(s) ==
  /\ pc[s] = "callEngine"
  /\ \E shape \in Shapes, stop \in StopReasons :
       /\ engineCalls > 0 =>
            \/ shape = <<"read_range">> /\ stop = "tool_use"
            \/ shape = <<"text">> /\ stop = "end_turn"
       /\ currentResponse' = [currentResponse EXCEPT ![s] =
                                [content |-> mkContent(shape, nextId), stop_reason |-> stop]]
       /\ nextId' = nextId + toolCount(shape)
  /\ engineCalls' = engineCalls + 1
  /\ pc' = [pc EXCEPT ![s] = "loop"]
  /\ UNCHANGED <<conversations, args, iterationCount, queue, toolResult, result, api,
                 resourceCalls, approved, nreq, overlap, lookup>>

\* the Resource Client answers the invocations of the first response in any
\* way and the later reads with a short rendering
DispatchInTurn(s) ==
  /\ DispatchTool(s)
  /\ engineCalls > 1 => (~toolResult'[s].isError /\ toolResult'[s].len < HugeLen)

\* the steps continueConversation takes between two awaits of getMessagesForAPI
TurnStep ==
  \E s \in Slots :
    \/ EngineAnswers(s)
    \/ EngineFail(s)
    \/ LoopTop(s)
    \/ DispatchInTurn(s)
    \/ AfterTools(s)
    \/ Finish(s)

\* await conversation.getMessagesForAPI(anthropic) settles: the caller leaves
\* the await, which under NextTurn only a GetMessages step does
GetMessagesSettles ==
  \E s \in Slots :
    /\ pc[s] = "getMessages"
    /\ \E next \in {"callEngine", "idle"} : pc' = [pc EXCEPT ![s] = next]

NextTurn ==
  \/ \E s \in Slots : StartTurn(s) \/ GetMessages(s)
  \/ TurnStep

\* every awaited call settles and the event loop runs the continuation
SpecTurn ==
  Init /\ [][NextTurn]_vars /\ WF_vars(TurnStep) /\ WF_pc(GetMessagesSettles)

(***************************************************************************)
(* One turn that leaves two writes pending, followed by confirmations      *)
(* whose id lists may also name an id no invocation carries.               *)
(***************************************************************************)
ConfirmAnyIds(s) == ConfirmToolCallsFrom(s, IdLists(nextId))

NextNames ==
  \E s \in Slots :
    \/ StartTurn(s)
    \/ GetMessages(s)
    \/ EngineReturnsWrites(s)
    \/ LoopTop(s)
    \/ DispatchTool(s)
    \/ AfterTools(s)
    \/ Finish(s)
    \/ ConfirmAnyIds(s)
    \/ ExecuteDone(s)

SpecNames == Init /\ [][NextNames]_vars

(***************************************************************************)
(* Callers that send the messages of one conversation with either of two   *)
(* spreadsheet ids; every turn takes one completion.                       *)
(***************************************************************************)
TwoSheets == {"s1", "s2"}

HandleMessageOnSheets(s) == HandleMessageWith(s, MessageConvIds, TwoSheets)

NextSheets ==
  \E s \in Slots :
    \/ HandleMessageOnSheets(s)
    \/ GetMessages(s)
    \/ EngineAnswersOnce(s)
    \/ LoopTop(s)
    \/ DispatchTool(s)
    \/ AfterTools(s)
    \/ Finish(s)
    \/ ConfirmToolCalls(s)
    \/ ExecuteDone(s)

SpecSheets == Init /\ [][NextSheets]_vars

(***************************************************************************)
(* Overlapping requests.  A turn has left a write_range and a create_chart *)
(* pending in the conversation 'default'; from there two requests, each a  *)
(* handleMessage or a confirmToolCalls, run at the same time and           *)
(* interleave at their awaits.                                             *)
(***************************************************************************)
InitOverlap ==
  /\ conversations =
       [c \in ConvIds |->
          IF c = "default"
          THEN [exists |-> TRUE, spreadsheetId |-> "s1",
                messages |-> <<ArrayMessage("user", <<TextBlock("user", SmallLen)>>)>>,
                pendingToolCalls |-> <<ToolCall(1, "write_range", "A1:B2"),
                                       ToolCall(2, "create_chart", "A1:B2")>>]
          ELSE NoConversation]
  /\ pc = [s \in Slots |-> "idle"]
  /\ args = [s \in Slots |-> NoArgs]
  /\ currentResponse = [s \in Slots |-> NoResponse]
  /\ iterationCount = [s \in Slots |-> 0]
  /\ queue = [s \in Slots |-> <<>>]
  /\ toolResult = [s \in Slots |-> NoToolResult]
  /\ result = [s \in Slots |-> NoResult]
  /\ api = NoApi
  /\ resourceCalls = <<>>
  /\ approved = {}
  /\ engineCalls = 0
  /\ nextId = 3
  /\ nreq = 0
  /\ overlap = TRUE
  /\ lookup = NoLookup

NextOverlap ==
  \E s \in Slots :
    \/ HandleMessage(s)
    \/ GetMessages(s)
    \/ EngineAnswersOnce(s)
    \/ LoopTop(s)
    \/ DispatchTool(s)
    \/ AfterTools(s)
    \/ Finish(s)
    \/ ConfirmToolCalls(s)
    \/ ExecuteDone(s)

SpecOverlap == InitOverlap /\ [][NextOverlap]_vars

\* the lists of one or two of the ids pending at the start
OverlapLists == UNION {[1..n -> {1, 2}] : n \in 1..2}

\* confirmToolCalls(conversationId, toolCallIds, true)
ConfirmApproving(s) ==
  /\ ConfirmToolCallsFrom(s, OverlapLists)
  /\ nreq' # nreq => args'[s].confirmed

\* the requests are confirmations with confirmed = true
NextOverlapConfirm ==
  \E s \in Slots :
    \/ ConfirmApproving(s)
    \/ ExecuteDone(s)

SpecOverlapConfirm == InitOverlap /\ [][NextOverlapConfirm]_vars

(***************************************************************************)
(* getMessageType on its own, as the unit tests call it: on the messages   *)
(* of a log that also holds string content, an empty content array and a   *)
(* first block without a type, and on the undefined that indexing past the *)
(* end of the log gives.                                                   *)
(***************************************************************************)
\* a content block without a type: {}
UntypedBlock ==
  [type |-> "undefined", id |-> 0, name |-> "", input |-> "", text |-> "", len |-> 0]

TypeMessages ==
  {ArrayMessage("user", <<TextBlock("user", SmallLen)>>),
   ArrayMessage("assistant", <<ToolUseBlock(1, "read_range", "A1:B2")>>),
   ArrayMessage("user", <<ToolResultBlock(1, "data", SmallLen)>>),
   StringMessage("user", "hello", SmallLen),
   ArrayMessage("user", <<>>),
   ArrayMessage("user", <<UntypedBlock>>)}

\* conversation.addMessage(message), any message the type admits
AddAnyMessage ==
  /\ Len(conversations["default"].messages) < MaxLog
  /\ \E message \in TypeMessages :
       conversations' = [conversations EXCEPT !["default"] = addMessage(@, message)]
  /\ api' = NoApi
  /\ UNCHANGED <<pc, args, currentResponse, iterationCount, queue, toolResult, result,
                 resourceCalls, approved, engineCalls, nextId, nreq, overlap, lookup>>

\* getMessageType(messages[k - 1]): a stored message, or undefined one past
\* the end as in validateToolUsePairs
GetMessageType ==
  /\ \E k \in 1..(Len(conversations["default"].messages) + 1) :
       LET messages == conversations["default"].messages
           message == IF k <= Len(messages) THEN messages[k] ELSE Undefined
           type == getMessageType(message)
       IN
       api' = [NoApi EXCEPT !.input = <<message>>, !.done = TRUE,
                            !.threw = (type = "THROW"), !.outcome = type]
  /\ UNCHANGED <<conversations, pc, args, currentResponse, iterationCount, queue,
                 toolResult, result, resourceCalls, approved, engineCalls, nextId, nreq,
                 overlap, lookup>>

NextTypes == AddAnyMessage \/ GetMessageType

SpecTypes == InitCompact /\ [][NextTypes]_vars

(***************************************************************************)
(* Properties.                                                             *)
(***************************************************************************)
WriteClassNames == {"write_range", "append_row", "clear_range", "create_chart"}

WriteClassOps == {"writeRange", "appendRow", "clearRange", "createChart"}

pendingOf(s) == conversationOf(s).pendingToolCalls

\* slot s dispatches the tool_use item at the head of its queue in this step
Dispatches(s) ==
  /\ pc[s] = "tools"
  /\ queue[s] # <<>>
  /\ queue'[s] = Tail(queue[s])

C3_ReadDispatchCallsResource ==
  [][\A s \in Slots :
       (Dispatches(s) /\ Head(queue[s]).name \notin WriteClassNames) =>
         /\ Len(resourceCalls') = Len(resourceCalls) + 1
         /\ resourceCalls'[Len(resourceCalls')].id = Head(queue[s]).id
         /\ conversations'[args[s].conversationId].pendingToolCalls = pendingOf(s)]_vars

\* C4: when the pending set is non-empty after all invocations of a response
\* have been processed, the turn makes no further engine call and returns a
\* confirmation_required result, whatever the stop reason of the response.
C4_PendingEndsTheTurn ==
  [][\A s \in Slots :
       /\ (pc[s] = "tools" /\ queue[s] = <<>> /\ hasPendingToolCalls(pendingOf(s))
             /\ pc'[s] # pc[s])
            => (pc'[s] = "finish" /\ engineCalls' = engineCalls)
       /\ (pc[s] = "finish" /\ hasPendingToolCalls(pendingOf(s)) /\ pc'[s] # pc[s])
            => result'[s].type = "confirmation_required"]_vars

\* slot s runs a confirmToolCalls call with confirmed = false in this step
Denies(s) ==
  /\ pc[s] = "idle"
  /\ nreq' = nreq + 1
  /\ args'[s].kind = "confirm"
  /\ ~args'[s].confirmed

\* C5: confirmToolCalls with confirmed = false calls no Resource Client
\* operation, and when it returns none of the named ids is pending.
C5_DenialClearsAndExecutesNothing ==
  [][\A s \in Slots :
       Denies(s) =>
         /\ resourceCalls' = resourceCalls
         /\ pc'[s] = "idle"
         /\ \A k \in 1..Len(args'[s].toolCallIds) :
              args'[s].toolCallIds[k]
                \notin pendingIds(conversations'[args'[s].conversationId].pendingToolCalls)]_vars

C5_Witness ==
  \E s \in Slots :
    /\ args[s].kind = "confirm"
    /\ ~args[s].confirmed
    /\ Len(args[s].toolCallIds) = 2
    /\ result[s].type = "success"
    /\ \E k \in 1..Len(conversationOf(s).messages) :
         /\ conversationOf(s).messages[k].blocks # <<>>
         /\ conversationOf(s).messages[k].blocks[1].text = "denied"

\* C6: a confirmation executes each named pending invocation exactly once,
\* and over any sequence of confirmToolCalls calls no invocation id is
\* executed more than once.
C6_ExecutedAtMostOnce ==
  \A i, j \in 1..Len(resourceCalls) :
    (i # j /\ resourceCalls[i].origin = "confirm" /\ resourceCalls[j].origin = "confirm")
      => resourceCalls[i].id # resourceCalls[j].id

\* the content blocks of a message sequence, in order
RECURSIVE flattenBlocks(_)
flattenBlocks(msgs) ==
  IF msgs = <<>> THEN <<>> ELSE Head(msgs).blocks \o flattenBlocks(Tail(msgs))

paired(blocks) ==
  \A k \in 1..Len(blocks) :
    /\ blocks[k].type = "tool_use" =>
         /\ k < Len(blocks)
         /\ blocks[k + 1].type = "tool_result"
         /\ blocks[k + 1].id = blocks[k].id
    /\ blocks[k].type = "tool_result" =>
         /\ k > 1
         /\ blocks[k - 1].type = "tool_use"
         /\ blocks[k - 1].id = blocks[k].id

\* C7: whenever getMessagesForAPI compacts, every tool_use block of its output
\* is immediately followed by a tool_result with the same id and every
\* tool_result block is immediately preceded by its tool_use.
C7_CompactedOutputIsPaired ==
  (api.done /\ api.compacted /\ ~api.threw) => paired(flattenBlocks(api.out))

\* C8: whenever the estimated size of the log exceeds the budget, the
\* estimated size of what getMessagesForAPI returns, summary included, is at
\* most the budget.
C8_CompactedOutputFitsBudget ==
  (api.done /\ ~api.threw
     /\ estimateTotal(api.input) > MAX_CONTEXT_TOKENS - RESERVE_TOKENS)
    => estimateTotal(api.out) <= MAX_CONTEXT_TOKENS - RESERVE_TOKENS

C10_NeverThrows == api.done => ~api.threw

\* C11: when compaction discards a non-empty prefix and the summarization
\* request fails (the engine call errors, or its output holds no text), the
\* first message getMessagesForAPI returns is the placeholder that states the
\* number of summarized messages.
C11_FailureGivesPlaceholder ==
  (api.done /\ ~api.threw /\ api.compacted /\ api.excluded # <<>>
     /\ api.outcome \in {"fail", "empty"})
    => /\ api.out # <<>>
       /\ api.out[1] = placeholderMessage(Len(api.excluded))

\* a is b with some elements left out, the others in b's order
RECURSIVE isSubsequence(_, _)
isSubsequence(a, b) ==
  IF a = <<>> THEN TRUE
  ELSE IF b = <<>> THEN FALSE
  ELSE IF Head(a) = Head(b) THEN isSubsequence(Tail(a), Tail(b))
  ELSE isSubsequence(a, Tail(b))

\* the summarization request of the last getMessagesForAPI call returned text
summarized ==
  /\ api.done /\ ~api.threw /\ api.compacted
  /\ api.excluded # <<>>
  /\ api.outcome = "ok"

\* C12 (as stated): when compaction discards a non-empty prefix and the
\* summarization request succeeds with text, getMessagesForAPI returns fewer
\* messages than the log holds, the summary message first and then the
\* validated messages in the order they have in the log.
C12_SummaryThenSuffixFewer ==
  summarized =>
    /\ Len(api.out) < Len(api.input)
    /\ api.out[1].kind = "string" /\ api.out[1].text = "summary"
    /\ isSubsequence(Tail(api.out), api.input)

\* C12 (amended): under the same condition getMessagesForAPI returns at most
\* as many messages as the log holds (as many when a single message was
\* discarded), the summary message first and then the validated messages in
\* the order they have in the log.
C12_SummaryThenSuffix ==
  summarized =>
    /\ Len(api.out) <= Len(api.input)
    /\ Len(api.out) = Len(api.input) - Len(api.excluded) + 1
    /\ api.out[1].kind = "string" /\ api.out[1].text = "summary"
    /\ isSubsequence(Tail(api.out), api.input)

C12_Witness ==
  /\ summarized
  /\ Len(api.out) >= 3
  /\ Len(api.out) < Len(api.input)
  /\ \E k \in 2..Len(api.out) : api.out[k].blocks[1].type = "tool_use"

\* message.content.some(item => item.type === 'tool_use')
hasToolUseBlocks(message) ==
  \E k \in 1..Len(message.blocks) : message.blocks[k].type = "tool_use"

\* message.content.some(item => item.type === 'tool_result')
hasToolResultBlocks(message) ==
  \E k \in 1..Len(message.blocks) : message.blocks[k].type = "tool_result"

\* the tool_use ids (tool_use_id for a tool_result) of the blocks of a type
blockIds(message, type) ==
  {message.blocks[k].id : k \in {j \in 1..Len(message.blocks) :
                                     message.blocks[j].type = type}}

\* no orphaned tool_use message, no orphaned tool_result message, no pair
\* whose ids differ
messagesPaired(msgs) ==
  \A k \in 1..Len(msgs) :
    /\ hasToolUseBlocks(msgs[k]) =>
         /\ k < Len(msgs)
         /\ hasToolResultBlocks(msgs[k + 1])
         /\ blockIds(msgs[k + 1], "tool_result") = blockIds(msgs[k], "tool_use")
    /\ hasToolResultBlocks(msgs[k]) =>
         /\ k > 1
         /\ hasToolUseBlocks(msgs[k - 1])
         /\ blockIds(msgs[k - 1], "tool_use") = blockIds(msgs[k], "tool_result")

\* C13: for every log, under the budget or over it, the output of
\* getMessagesForAPI holds no tool_use message without a following
\* tool_result message, no tool_result message without a preceding tool_use
\* message, and no pair whose ids differ.
C13_EveryOutputIsPaired ==
  (api.done /\ ~api.threw) => messagesPaired(api.out)

\* the Resource Client raised an error in the call it received in this step
ResourceFails ==
  /\ Len(resourceCalls') = Len(resourceCalls) + 1
  /\ resourceCalls'[Len(resourceCalls')].failed

logOf(s) == conversationOf(s).messages

\* C14: an error raised by the Resource Client during handleToolCall or
\* executeToolCall comes back as an outcome with isError = true whose content
\* carries the error; the call does not throw, and the loop goes on after
\* appending that outcome as the tool_result of the invocation.
C14_ResourceErrorBecomesOutcome ==
  [][\A s \in Slots :
       /\ (Dispatches(s) /\ ResourceFails) =>
            /\ toolResult'[s] =
                 ToolResult(Head(queue[s]).id, "error", ErrorLen, TRUE, FALSE)
            /\ pc'[s] = "tools"
            /\ conversations'[args[s].conversationId].messages =
                 logOf(s) \o
                   <<ArrayMessage("assistant", <<Head(queue[s])>>),
                     ArrayMessage("user",
                       <<ToolResultBlock(Head(queue[s]).id, "error", ErrorLen),
                         TextBlock("What next?", WhatNextLen)>>)>>
       /\ (pc[s] = "execute" /\ ResourceFails) =>
            /\ pc'[s] \in {"execute", "idle"}
            /\ result'[s].type # "error"
            /\ \E k \in 1..Len(conversations'[args[s].conversationId].messages) :
                 /\ k > Len(logOf(s))
                 /\ conversations'[args[s].conversationId].messages[k] =
                      ArrayMessage("user",
                        <<ToolResultBlock(Head(queue[s]).id, "error", ErrorLen)>>)]_vars

C14_Witness ==
  /\ \E k \in 1..Len(resourceCalls) :
       resourceCalls[k].failed /\ resourceCalls[k].origin = "loop"
  /\ result[1].type = "message"
  /\ \E k \in 1..Len(conversations["default"].messages) :
       /\ conversations["default"].messages[k].blocks # <<>>
       /\ conversations["default"].messages[k].blocks[1].type = "tool_result"
       /\ conversations["default"].messages[k].blocks[1].text = "error"

\* C15: against an engine that answers every completion with tool_use and a
\* read invocation, the turn stops at the cap: no more than maxIterations
\* loop iterations, completions requested and tools dispatched.
C15_StopsAtCap ==
  \A s \in Slots :
    /\ iterationCount[s] <= maxIterations
    /\ engineCalls <= maxIterations
    /\ Len(resourceCalls) <= maxIterations

\* C16: a turn that leaves the loop at the cap, with no completion signalled
\* and nothing pending, is answered with an error and not with a message.
C16_CapIsAnError ==
  [][\A s \in Slots :
       (/\ pc[s] = "finish"
        /\ iterationCount[s] = maxIterations
        /\ currentResponse[s].stop_reason # "end_turn"
        /\ ~hasPendingToolCalls(pendingOf(s))
        /\ pc'[s] = "idle")
       => result'[s].type = "error"]_vars

\* a confirmToolCalls call of slot s returns a value in this step
ConfirmReturns(s) ==
  \/ pc[s] = "execute" /\ pc'[s] = "idle"
  \/ pc[s] = "idle" /\ pc'[s] = "idle" /\ nreq' = nreq + 1 /\ args'[s].kind = "confirm"

\* slot s takes a step of a confirmToolCalls call that passed its checks
ConfirmSteps(s) ==
  \/ pc[s] = "execute"
  \/ pc[s] = "idle" /\ nreq' = nreq + 1 /\ args'[s].kind = "confirm"

\* the pending calls, after the step, of the conversation slot s works on
pendingAfter(s) == conversations'[args'[s].conversationId].pendingToolCalls

\* C17: a confirmToolCalls call that leaves nothing pending calls the
\* Reasoning Engine again and returns the result of that turn: a message or
\* a confirmation_required result.
C17_ConfirmationReentersLoop ==
  [][\A s \in Slots :
       (ConfirmReturns(s) /\ ~hasPendingToolCalls(pendingAfter(s)))
         => result'[s].type \in {"message", "confirmation_required"}]_vars

\* C18: a confirmToolCalls call that resolves only some of the pending
\* invocations requests no completion, removes exactly the named ids from
\* the pending set and returns a result that lists exactly the invocations
\* still pending.
C18_PartialConfirmationListsRemainder ==
  [][\A s \in Slots :
       /\ ConfirmSteps(s) =>
            /\ engineCalls' = engineCalls
            /\ pc[s] = "execute" => pendingAfter(s) = pendingOf(s)
            /\ pc[s] = "idle" =>
                 pendingAfter(s) =
                   SelectSeq(conversations[args'[s].conversationId].pendingToolCalls,
                             LAMBDA c : \A k \in 1..Len(args'[s].toolCallIds) :
                                           args'[s].toolCallIds[k] # c.id)
       /\ (ConfirmReturns(s) /\ hasPendingToolCalls(pendingAfter(s))) =>
            /\ result'[s].hasMorePendingCalls
            /\ result'[s].pendingToolCalls = pendingSummary(pendingAfter(s))]_vars

C18_Witness ==
  \E s \in Slots :
    /\ pc[s] = "idle"
    /\ args[s].kind = "confirm"
    /\ args[s].confirmed
    /\ Len(resourceCalls) = Len(args[s].toolCallIds)
    /\ Len(pendingOf(s)) > 0
    /\ result[s].hasMorePendingCalls
    /\ result[s].pendingToolCalls = pendingSummary(pendingOf(s))
    /\ \A k \in 1..Len(pendingOf(s)) :
         \A j \in 1..Len(resourceCalls) : resourceCalls[j].id # pendingOf(s)[k].id

\* a completion requested by slot s is rejected in this step
EngineFails(s) ==
  /\ pc[s] = "callEngine"
  /\ pc'[s] = "idle"

\* C19: when a completion requested by the handleMessage loop is rejected,
\* handleMessage rejects with an error that carries a reason, the turn
\* requests no further completion and calls no Resource Client operation,
\* and the log keeps exactly the messages it held before the failing call.
C19_EngineFailureEndsTheTurn ==
  [][\A s \in Slots :
       EngineFails(s) =>
         /\ result'[s].type = "error"
         /\ result'[s].error # ""
         /\ engineCalls' = engineCalls
         /\ resourceCalls' = resourceCalls
         /\ conversations' = conversations]_vars

C19_Witness ==
  \E s \in Slots :
    /\ pc[s] = "idle"
    /\ args[s].kind = "message"
    /\ result[s] = ErrorResult("Chat error: Failed to communicate with AI")
    /\ engineCalls = 1
    /\ Len(resourceCalls) = 1
    /\ Len(logOf(s)) = 3
    /\ hasToolResultBlocks(logOf(s)[3])

\* C20: every handleMessage and confirmToolCalls call ends with a message
\* of non-empty content, with a confirmation request that lists at least
\* one pending invocation, or with an error.
C20_ResultIsNeverEmpty ==
  \A s \in Slots :
    \/ result[s].type = "none"
    \/ result[s].type = "error"
    \/ result[s].type = "message" /\ result[s].content # <<>>
    \/ result[s].type = "confirmation_required" /\ result[s].pendingToolCalls # <<>>

\* slot s: handleMessage has stored the user message and enters continueConversation
Accepts(s) ==
  /\ pc[s] = "idle"
  /\ pc'[s] = "getMessages"

\* C21: handleMessage works on the conversation 'default' when no id is
\* given; the registry creates the Conversation of an id on first use and
\* hands out the same one, with the messages and pending calls it has
\* accumulated, on every later use; getConversation returns undefined for an
\* id that was never created or has been cleared.
C21_RegistryKeepsOneConversationPerId ==
  [][/\ \A s \in Slots :
          Accepts(s) =>
            LET id == args'[s].conversationId
                before == conversations[id]
                after == conversations'[id]
            IN
            /\ id = IF args'[s].given = "" THEN "default" ELSE args'[s].given
            /\ after.exists
            /\ Len(after.messages) > 0
            /\ before.exists => after = addMessage(before, after.messages[Len(after.messages)])
            /\ ~before.exists => Len(after.messages) = 1 /\ after.pendingToolCalls = <<>>
     /\ lookup' # lookup =>
          /\ lookup'.conversation.exists = conversations[lookup'.id].exists
          /\ lookup'.conversation.exists => lookup'.conversation = conversations[lookup'.id]]_vars

C21_Witness ==
  /\ args[1].kind = "message"
  /\ args[1].given = ""
  /\ conversations["default"].exists
  /\ Len(conversations["default"].messages) >= 3
  /\ nreq = 2
  /\ lookup.done
  /\ lookup.id = "other"
  /\ ~lookup.conversation.exists

\* slot s takes a step of a handleMessage or confirmToolCalls call
CallSteps(s) ==
  \/ pc[s] # "idle"
  \/ nreq' = nreq + 1 /\ pc'[s] # "idle"
  \/ nreq' = nreq + 1 /\ args'[s].kind = "confirm"

\* C22: a handleMessage or confirmToolCalls call on one conversation leaves
\* the messages and the pending calls of every other conversation as they
\* are.
C22_OtherConversationsUntouched ==
  [][\A s \in Slots :
       CallSteps(s) =>
         \A B \in ConvIds \ {args'[s].conversationId} :
           /\ conversations'[B].exists = conversations[B].exists
           /\ conversations'[B].messages = conversations[B].messages
           /\ conversations'[B].pendingToolCalls = conversations[B].pendingToolCalls]_vars

C22_Witness ==
  /\ conversations["other"].exists
  /\ hasPendingToolCalls(conversations["other"].pendingToolCalls)
  /\ Len(conversations["other"].messages) = 1
  /\ conversations["default"].exists
  /\ Len(conversations["default"].messages) >= 2
  /\ args[1].conversationId = "default"
  /\ pc[1] = "idle"
  /\ result[1].type = "message"

\* the messages of the conversation slot s works on, after the step
logAfter(s) == conversations'[args'[s].conversationId].messages

\* message is a user message whose first block is the tool_result of id i
\* with content tag
answers(message, i, tag) ==
  /\ message.role = "user"
  /\ message.blocks # <<>>
  /\ message.blocks[1].type = "tool_result"
  /\ message.blocks[1].id = i
  /\ message.blocks[1].text = tag

\* C23: for each invocation a confirmToolCalls call resolves, the log gains
\* an assistant message with the tool_use block of that invocation (its id,
\* name and input) and, right after it, a user message whose tool_result
\* has the same id: marked as denied for a denial, and carrying the outcome
\* of executeToolCall for a confirmation.
C23_ResolvedCallsEnterTheLogAsPairs ==
  [][\A s \in Slots :
       LET before == conversations[args'[s].conversationId].messages
           n == Len(before)
           resolved == getPendingToolCalls(
                         conversations[args'[s].conversationId].pendingToolCalls,
                         args'[s].toolCallIds)
       IN
       /\ Denies(s) =>
            /\ Len(logAfter(s)) = n + Len(resolved) + Len(resolved)
            /\ SubSeq(logAfter(s), 1, n) = before
            /\ \A k \in 1..Len(resolved) :
                 /\ logAfter(s)[n + k + k - 1] = toolUseMessage(resolved[k])
                 /\ answers(logAfter(s)[n + k + k], resolved[k].id, "denied")
       /\ (pc[s] = "idle" /\ pc'[s] = "execute") =>
            /\ queue'[s] = resolved
            /\ logAfter(s) = Append(before, toolUseMessage(resolved[1]))
       /\ pc[s] = "execute" =>
            LET pendingCall == Head(queue[s])
                rest == Tail(queue[s])
                call == resourceCalls'[Len(resourceCalls')]
            IN
            /\ before[n] = toolUseMessage(pendingCall)
            /\ Len(resourceCalls') = Len(resourceCalls) + 1
            /\ call.id = pendingCall.id
            /\ Len(logAfter(s)[n + 1].blocks) = 1
            /\ answers(logAfter(s)[n + 1], pendingCall.id,
                       IF call.failed THEN "error" ELSE "success")
            /\ SubSeq(logAfter(s), 1, n) = before
            /\ IF rest = <<>>
               THEN Len(logAfter(s)) = n + 1
               ELSE logAfter(s) = Append(SubSeq(logAfter(s), 1, n + 1),
                                         toolUseMessage(Head(rest)))]_vars

C23_Witness ==
  \E s \in Slots :
    /\ pc[s] = "idle"
    /\ args[s].kind = "confirm"
    /\ args[s].confirmed
    /\ args[s].toolCallIds = <<2, 1>>
    /\ Len(resourceCalls) = 2
    /\ Len(logOf(s)) = 5
    /\ logOf(s)[2] = toolUseMessage(ToolCall(2, "create_chart", "A1:B2"))
    /\ answers(logOf(s)[3], 2, "error")
    /\ logOf(s)[4] = toolUseMessage(ToolCall(1, "write_range", "A1:B2"))
    /\ answers(logOf(s)[5], 1, "success")

\* the ids of the tool_use blocks of a message sequence
toolUseIds(msgs) ==
  LET blocks == flattenBlocks(msgs) IN
  {blocks[k].id : k \in {j \in 1..Len(blocks) : blocks[j].type = "tool_use"}}

hasResultFor(message, i) ==
  \E j \in 1..Len(message.blocks) :
    /\ message.blocks[j].type = "tool_result"
    /\ message.blocks[j].id = i

\* every write-class tool_use block of msgs is answered in the next message
writesAnswered(msgs) ==
  \A k \in 1..Len(msgs) :
    \A j \in 1..Len(msgs[k].blocks) :
      (msgs[k].blocks[j].type = "tool_use" /\ msgs[k].blocks[j].name \in WriteClassNames)
        => /\ k < Len(msgs)
           /\ hasResultFor(msgs[k + 1], msgs[k].blocks[j].id)

\* C25: between calls, turns that end at the iteration cap included, every
\* write-class tool_use block of a stored log is followed, in the next
\* message, by a tool_result with the same id.
C25_StoredWritesAreAnswered ==
  (\A s \in Slots : pc[s] = "idle")
    => \A c \in ConvIds : writesAnswered(conversations[c].messages)

\* the user message that answers a tool_use item handled by the loop
whatNextMessage(toolUseItem, content, len) ==
  ArrayMessage("user", <<ToolResultBlock(toolUseItem.id, content, len),
                         TextBlock("What next?", WhatNextLen)>>)

\* C26: for each read invocation the loop handles, the log gains the
\* assistant message with its tool_use block and, right after it, the user
\* message with the tool_result of the same id and the text 'What next?';
\* the log only grows during the turn, and every request to the engine is
\* built from the whole log of that moment.
C26_ReadPairIsLoggedAndSent ==
  [][\A s \in Slots :
       /\ (Dispatches(s) /\ Head(queue[s]).name \notin WriteClassNames) =>
            logAfter(s) =
              logOf(s) \o <<ArrayMessage("assistant", <<Head(queue[s])>>),
                            whatNextMessage(Head(queue[s]), toolResult'[s].content,
                                            toolResult'[s].len)>>
       /\ (pc[s] \in {"loop", "tools", "getMessages", "callEngine"}) =>
            /\ Len(logAfter(s)) >= Len(logOf(s))
            /\ SubSeq(logAfter(s), 1, Len(logOf(s))) = logOf(s)
       /\ (pc[s] = "getMessages" /\ pc'[s] = "callEngine") =>
            /\ api'.done
            /\ api'.input = logOf(s)]_vars

C26_Witness ==
  \E s \in Slots :
    /\ pc[s] = "callEngine"
    /\ iterationCount[s] = 1
    /\ Len(logOf(s)) = 3
    /\ logOf(s)[2] = ArrayMessage("assistant", <<ToolUseBlock(1, "read_range", "A1:B2")>>)
    /\ logOf(s)[3] = whatNextMessage(ToolUseBlock(1, "read_range", "A1:B2"), "data", SmallLen)
    /\ api.input = logOf(s)
    /\ api.out = logOf(s)

\* message holds a tool_use or tool_result block of one of the ids
mentions(message, ids) ==
  \E j \in 1..Len(message.blocks) :
    /\ message.blocks[j].type \in {"tool_use", "tool_result"}
    /\ message.blocks[j].id \in ids

\* C27: while the invocations of a response are dispatched, the log already
\* holds one assistant message for each text block of that response, in
\* their order, and every message of a tool_use/tool_result pair produced
\* from the response comes after them.
C27_TextPrecedesPairs ==
  \A s \in Slots :
    pc[s] = "tools" =>
      LET content == currentResponse[s].content
          texts == SelectSeq(content, LAMBDA item : item.type = "text")
          ids == {content[k].id : k \in {j \in 1..Len(content) : content[j].type = "tool_use"}}
          log == logOf(s)
      IN
      \E n \in 0..Len(log) :
        /\ n + Len(texts) <= Len(log)
        /\ \A k \in 1..Len(texts) : log[n + k] = ArrayMessage("assistant", <<texts[k]>>)
        /\ \A k \in 1..Len(log) : mentions(log[k], ids) => k > n + Len(texts)
        /\ \A k \in (n + Len(texts) + 1)..Len(log) : mentions(log[k], ids)

C27_Witness ==
  \E s \in Slots :
    /\ pc[s] = "tools"
    /\ queue[s] = <<>>
    /\ currentResponse[s].content[1].type = "tool_use"
    /\ currentResponse[s].content[2].type = "text"
    /\ Len(logOf(s)) = 4
    /\ logOf(s)[2] = ArrayMessage("assistant", <<currentResponse[s].content[2]>>)
    /\ logOf(s)[3] = ArrayMessage("assistant", <<currentResponse[s].content[1]>>)
    /\ hasResultFor(logOf(s)[4], currentResponse[s].content[1].id)

\* the instruction appended after a response cut off by max_tokens
continuationMessage == ArrayMessage("user", <<TextBlock("continue", ContinueLen)>>)

\* slot s has handled a response with stop reason max_tokens and nothing is pending
Truncated(s) ==
  /\ currentResponse[s].stop_reason = "max_tokens"
  /\ ~hasPendingToolCalls(pendingOf(s))

\* C28: after handling a response with stop reason max_tokens, with nothing
\* pending, the loop appends exactly one message, the continuation
\* instruction, and then requests the next completion in the same turn.
C28_TruncationContinuesTheTurn ==
  [][\A s \in Slots :
       /\ (pc[s] = "tools" /\ queue[s] = <<>> /\ Truncated(s) /\ pc'[s] # "tools") =>
            /\ logAfter(s) = Append(logOf(s), continuationMessage)
            /\ pc'[s] = "getMessages"
       /\ (pc[s] = "getMessages" /\ iterationCount[s] > 0 /\ Truncated(s)
             /\ pc'[s] # "getMessages") =>
            /\ logAfter(s) = logOf(s)
            /\ pc'[s] = "callEngine"]_vars

\* the messages of the last output that come from the log
fromLog(out) ==
  IF out # <<>> /\ out[1].kind = "string" THEN Tail(out) ELSE out

\* C29: when compaction triggers, the messages kept before validation are
\* the longest suffix of the log whose estimate stays under the budget: the
\* message just before the suffix does not fit, and nothing older than it
\* reaches the output.
C29_KeptMessagesAreASuffix ==
  (api.done /\ api.compacted) =>
    LET input == api.input
        kept == latestMessages(input)
        n == Len(input)
        m == Len(kept)
    IN
    /\ m < n
    /\ kept = SubSeq(input, n - m + 1, n)
    /\ m > 0 => estimateTotal(kept) < maxAllowedTokens
    /\ estimateTotal(kept) + estimateTokens(input[n - m]) >= maxAllowedTokens
    /\ ~api.threw => isSubsequence(fromLog(api.out), kept)

C29_Witness ==
  /\ api.done /\ api.compacted /\ ~api.threw
  /\ LET input == api.input
         kept == latestMessages(input)
         older == Len(input) - Len(kept) - 1
     IN
     /\ Len(kept) >= 2
     /\ older >= 1
     /\ estimateTotal(kept) + estimateTokens(input[older]) < maxAllowedTokens
     /\ \A k \in 1..Len(api.out) : api.out[k] # input[older]

\* message is of the given type: the type of its first content block
isOfType(message, type) ==
  /\ message.kind = "array"
  /\ message.blocks # <<>>
  /\ message.blocks[1].type = type

\* msgs[k], msgs[k + 1] are a tool_use message and the tool_result message of its id
validPairAt(msgs, k) ==
  /\ k < Len(msgs)
  /\ isOfType(msgs[k], "tool_use")
  /\ isOfType(msgs[k + 1], "tool_result")
  /\ msgs[k].blocks[1].id = msgs[k + 1].blocks[1].id

\* the last compaction threw while validating the kept messages
validationThrew == api.threw /\ api.excluded = <<>>

\* C30: validateToolUsePairs returns, in their original order, every text
\* message of its input and every tool_use message that is immediately
\* followed by the tool_result message of the same id, together with that
\* tool_result message.
C30_ValidationKeepsTextAndPairs ==
  (api.done /\ api.compacted) =>
    LET kept == latestMessages(api.input)
        out == fromLog(api.out)
    IN
    /\ ~validationThrew
    /\ ~api.threw =>
         /\ isSubsequence(out, kept)
         /\ SelectSeq(out, LAMBDA m : isOfType(m, "text"))
              = SelectSeq(kept, LAMBDA m : isOfType(m, "text"))
         /\ \A k \in 1..Len(kept) :
              validPairAt(kept, k) =>
                \E j \in 1..Len(out) :
                  j < Len(out) /\ out[j] = kept[k] /\ out[j + 1] = kept[k + 1]

\* C31: when compaction triggers, the messages handed to the summary
\* generation and the log messages getMessagesForAPI returns do not overlap:
\* the returned messages are exactly the log after the summarized prefix.
C31_SummarizedAndReturnedAreDisjoint ==
  (api.done /\ api.compacted /\ ~api.threw) =>
    fromLog(api.out) = SubSeq(api.input, Len(api.excluded) + 1, Len(api.input))

\* an earlier observation of a log is the beginning of a later one
isPrefix(a, b) == Len(a) <= Len(b) /\ SubSeq(b, 1, Len(a)) = a

\* C32: the message log is append-only: over every step of handleMessage,
\* getMessagesForAPI and confirmToolCalls a stored conversation stays stored
\* and what getAllMessages returned before the step is a prefix of what it
\* returns after it, compaction included.
C32_LogIsAppendOnly ==
  [][\A c \in ConvIds :
       conversations[c].exists =>
         /\ conversations'[c].exists
         /\ isPrefix(getAllMessages(conversations[c]), getAllMessages(conversations'[c]))]_vars

\* getMessagesForAPI went into compaction during a turn, excluded stored
\* messages, and the log is still stored whole
C32_Witness ==
  /\ api.done /\ api.compacted
  /\ Len(api.excluded) >= 2
  /\ \E s \in Slots :
       /\ args[s].kind = "message"
       /\ getAllMessages(conversations[args[s].conversationId]) = api.input

TerminalTypes == {"message", "confirmation_required", "error"}

ConfirmRejected(s) ==
  /\ pc[s] = "idle" /\ pc'[s] = "idle"
  /\ result'[s] # result[s]
  /\ result'[s].type = "error"
  /\ result'[s].error \in {"Conversation not found", "No pending tool calls found"}

\* slot s calls confirmToolCalls and the call passes its checks in this step
ConfirmAccepted(s) ==
  /\ pc[s] = "idle"
  /\ nreq' = nreq + 1
  /\ args'[s].kind = "confirm"

\* the named ids that are pending, in the order the caller names them
namedPending(pend, toolCallIds) ==
  SelectSeq(toolCallIds, LAMBDA i : i \in pendingIds(pend))

\* C34: a confirmToolCalls call that throws 'Conversation not found' or 'No
\* pending tool calls found' changes no conversation and calls no Resource
\* Client operation; a call passes only for a stored conversation and a list
\* that names a pending id, and then resolves exactly the named ids that are
\* pending: ids that are not pending add nothing and unnamed calls stay pending.
C34_ConfirmErrorsChangeNothing ==
  [][\A s \in Slots :
       /\ ConfirmRejected(s) =>
            /\ conversations' = conversations
            /\ resourceCalls' = resourceCalls
            /\ result'[s].error = "Conversation not found" =>
                 \E c \in ConvIds : ~conversations[c].exists
            /\ result'[s].error = "No pending tool calls found" =>
                 \E c \in ConvIds : conversations[c].exists
       /\ ConfirmAccepted(s) =>
            LET conv == conversations[args'[s].conversationId]
                named == namedPending(conv.pendingToolCalls, args'[s].toolCallIds)
                after == conversations'[args'[s].conversationId]
            IN
            /\ conv.exists
            /\ named # <<>>
            /\ pendingIds(after.pendingToolCalls) =
                 pendingIds(conv.pendingToolCalls) \ {named[k] : k \in 1..Len(named)}
            /\ IF args'[s].confirmed
               THEN [k \in 1..Len(queue'[s]) |-> queue'[s][k].id] = named
               ELSE [k \in 1..Len(named) |->
                       after.messages[Len(conv.messages) + 2 * k].blocks[1].id] = named]_vars

\* a confirmation naming only an id that is not pending was rejected while
\* two writes are pending, and nothing was executed
C34_Witness ==
  \E s \in Slots :
    /\ pc[s] = "idle"
    /\ result[s].error = "No pending tool calls found"
    /\ Len(conversations["default"].pendingToolCalls) = 2
    /\ resourceCalls = <<>>

\* the text blocks of Reasoning Engine responses stored in a log
engineTexts(msgs) ==
  Len(SelectSeq(flattenBlocks(msgs),
                LAMBDA b : b.type = "text" /\ b.text = "assistant"))

\* slot s handles the response in hand for the first time in this step: at
\* the head of an iteration, or after the loop when the cap kept the
\* (maxIterations + 1)-th response of the turn out of the loop
HandlesResponse(s) ==
  \/ pc[s] = "loop" /\ pc'[s] = "tools"
  \/ pc[s] = "finish" /\ engineCalls = maxIterations + 1

\* C35: every text block of every response received during a handleMessage
\* turn is appended to the log exactly once: the step that handles a response
\* adds each of its text blocks once, the last response at the iteration cap
\* included, and no other step of the turn adds or removes one.
C35_ResponseTextsAppendedOnce ==
  [][\A s \in Slots :
       (args[s].kind = "message" /\ pc[s] # "idle") =>
         engineTexts(logAfter(s)) =
           engineTexts(logOf(s)) +
             IF HandlesResponse(s)
             THEN Len(textItems(currentResponse[s].content))
             ELSE 0]_vars

\* C36: every Resource Client call made for the conversation 'default', a
\* read dispatched from handleMessage or a write executed from
\* confirmToolCalls, targets the spreadsheet id the conversation was created
\* with.
C36_CallsTargetTheConversationSheet ==
  \A k \in 1..Len(resourceCalls) :
    resourceCalls[k].spreadsheetId = conversations["default"].spreadsheetId

\* the pending call stored under id i, as a sequence of at most one entry
pendingUnder(pend, i) == SelectSeq(pend, LAMBDA c : c.id = i)

occurrences(ids, i) == Cardinality({k \in 1..Len(ids) : ids[k] = i})

queuedIds(s) == [k \in 1..Len(queue[s]) |-> queue[s][k].id]

\* the ids of the calls the Resource Client received from confirmToolCalls
executedIds ==
  LET calls == SelectSeq(resourceCalls, LAMBDA c : c.origin = "confirm") IN
  [k \in 1..Len(calls) |-> calls[k].id]

C39_NothingBetweenToolUseAndResult ==
  \A c \in ConvIds :
    LET msgs == conversations[c].messages IN
    \A k \in 1..(Len(msgs) - 1) :
      hasToolUseBlocks(msgs[k]) =>
        /\ hasToolResultBlocks(msgs[k + 1])
        /\ blockIds(msgs[k + 1], "tool_result") = blockIds(msgs[k], "tool_use")

\* the message has a non-empty content array whose first block has a type
hasTypedFirstBlock(message) ==
  /\ message.kind = "array"
  /\ message.blocks # <<>>
  /\ message.blocks[1].type \in {"text", "tool_use", "tool_result"}

\* C40: getMessageType never throws: it returns the type of the first block
\* of a message whose content is a non-empty array with a typed first block,
\* and 'unknown' for an undefined message, content that is missing or not an
\* array, an empty content array and a first block without a type.
C40_GetMessageTypeIsTotal ==
  api.done =>
    /\ ~api.threw
    /\ api.outcome = IF hasTypedFirstBlock(api.input[1])
                     THEN api.input[1].blocks[1].type
                     ELSE "unknown"

====
